---------------------------- MODULE Spec2Model ----------------------------
(***************************************************************************)
(* State-machine model of src/src/components/Game.vue (humanIL): the game  *)
(* session (start/stop, countdown, reset, timeout), the watcher on         *)
(* loop_active that owns the tick timer, and the tick itself (gameLoop:    *)
(* signal generator, PID controller, plant, scoring, rolling buffer).      *)
(*                                                                         *)
(* Execution model.  The component runs on the browser's event loop: a     *)
(* click handler or a timer callback is one macrotask and runs to          *)
(* completion; Vue defers the callback of watch(loop_active) to a job that *)
(* is flushed as a microtask, i.e. after the handler that changed the ref  *)
(* and before any other macrotask.  The job calls the callback only when   *)
(* the ref's value differs from the value the watcher saw last.            *)
(*                                                                         *)
(* Numbers.  t is an IEEE-754 double accumulated by t += dt; it is kept    *)
(* exactly, as a non-negative multiple of 2^-57 in three base-2^24 limbs   *)
(* <<hi, mid, lo>>, and every addition is rounded to 53 significant bits   *)
(* (round to nearest, ties to even).  The signal, controller and plant     *)
(* values are kept in fixed point with FX units per 1.0; Math.sin is a     *)
(* fixed-point series.  The chart (updateChart) is presentation only and   *)
(* has no state here.                                                      *)
(***************************************************************************)
EXTENDS Integers, Sequences, FiniteSets, TLC

(***************************** program constants ***************************)
loop_ms == 50
display_seconds == 10
timeout_seconds == 15
countdown_seconds == 3
CountdownIntervalMs == 1000
listSize == (display_seconds * 1000) \div loop_ms

\* fixed-point resolution of the signal / controller / plant values
FX == 100 * 100
\* margin = 0.15
margin == (15 * FX) \div 100

\* PID gains, in hundredths: 3.28, 3.38, 1.48
Kp == 328
Ki == 338
Kd == 148
\* plant: MODE, K = 1.0, T = 1.0, wn = 2.0, D = 0.5 (in tenths)
MODE == "PT2"
K == 1
T == 1
wn == 2
D == 5

\* the "no handle" value of intervalId / countdownTimer
null == 0
\* the "no value" sample the buffers are filled with (outside the value range)
NaN == -(2 ^ 30)

Modes == {"openL", "humanil", "closedL", "closedL-auto"}
Functions == {"0", "1", "2", "3"}

(********************************* bounds **********************************)
\* slider positions the user picks from (the slider ranges over -150..150)
UserInputs == {0, 50}
\* the user moves the slider only during the first MaxSlideTick ticks after a reset
MaxSlideTick == 2
\* number of mode / target-function selections explored
MaxSelects == 1
\* cap of the tick counter (above the 300 ticks a run takes)
MaxTicks == 302

(************************** IEEE-754 double for t **************************)
Base == 2 ^ 24

\* number of significant bits of a positive integer below 2^24
RECURSIVE BitLen(_)
BitLen(n) == IF n = 0 THEN 0 ELSE 1 + BitLen(n \div 2)

\* carry propagation of <<hi, mid, lo>> whose mid and lo may have reached Base
Carry(x) ==
    LET lo  == x[3] % Base
        m1  == x[2] + (x[3] \div Base)
        mid == m1 % Base
        hi  == x[1] + (m1 \div Base)
    IN  <<hi, mid, lo>>

\* round an exact sum (>= 2^52 units) to 53 significant bits, ties to even
RoundDouble(x) ==
    LET q == BitLen(x[1]) - 5
    IN  IF q <= 0 THEN x
        ELSE LET p    == 2 ^ q
                 r    == x[3] % p
                 half == p \div 2
                 odd  == ((x[3] \div p) % 2) = 1
                 up   == r > half \/ (r = half /\ odd)
             IN  Carry(<<x[1], x[2], IF up THEN x[3] - r + p ELSE x[3] - r>>)

\* a + b in double arithmetic
AddDouble(a, b) == RoundDouble(Carry(<<a[1] + b[1], a[2] + b[2], a[3] + b[3]>>))

\* the double of a small non-negative integer n (n * 2^57 units)
IntDouble(n) == <<n * 512, 0, 0>>

\* a >= b on doubles
GeDouble(a, b) ==
    \/ a[1] > b[1]
    \/ a[1] = b[1] /\ a[2] > b[2]
    \/ a[1] = b[1] /\ a[2] = b[2] /\ a[3] >= b[3]

\* dt = loop_ms / 1000 = 0.05 as a double: 0x1.999999999999ap-5
dt == <<25, 10066329, 10066330>>

\* t in fixed point, rounded to the nearest unit
TFx(x) ==
    LET n == x[1] * FX + ((x[2] \div 1024) * FX) \div 16384
    IN  (n + 256) \div 512

(****************************** fixed point ********************************)
\* a / b rounded to the nearest integer (b > 0)
QuoRound(a, b) == (2 * a + b) \div (2 * b)

Abs(a) == IF a < 0 THEN -a ELSE a

\* Math.sin on fixed-point radians: reduction to [-pi/2, pi/2], then the
\* series x - x^3/6 + x^5/120 - x^7/5040
PiFx == (31416 * FX) \div 10000
SinSeries(x) ==
    LET x2 == QuoRound(x * x, FX)
        x3 == QuoRound(x * x2, FX)
        x5 == QuoRound(x3 * x2, FX)
        x7 == QuoRound((x5 \div 10) * x2, FX \div 10)
    IN  x - QuoRound(x3, 6) + QuoRound(x5, 120) - QuoRound(x7, 5040)
SinFx(x) ==
    LET r == x % (2 * PiFx)
        s == IF r > PiFx THEN r - 2 * PiFx ELSE r
    IN  IF s > PiFx \div 2 THEN SinSeries(PiFx - s)
        ELSE IF s < -(PiFx \div 2) THEN SinSeries(-PiFx - s)
        ELSE SinSeries(s)


(********************************* state ***********************************)
VARIABLES
    loop_active,      \* ref: the tick loop is (to be) running
    watchOld,         \* value of loop_active the watcher saw last
    jobQueued,        \* the watcher's job waits in the microtask queue
    intervalId,       \* handle of the tick timer, or null
    countdownTimer,   \* handle of the countdown timer, or null
    tickTimers,       \* live window timers whose callback is gameLoop
    countdownTimers,  \* live window timers whose callback is the countdown step
    countdown,        \* ref: seconds left, -1 when no countdown is shown
    finished,         \* ref: disables the START/STOP button
    aborted,          \* the pending stop was forced by reset
    userInput,        \* ref: slider value
    game_mode,        \* ref: selected mode
    target_function,  \* ref: selected target function
    score,            \* ref
    t,                \* simulation clock (double)
    y1, y2,           \* plant state
    integral, lastError, \* controller state
    channel1, channel2,  \* rolling buffer: target series, output series
    ticks,            \* history: gameLoop executions since construction / the last reset
    cdWait,           \* history: ticks fired since the pending countdown timer was armed
    selects,          \* history: selector changes made so far
    decrements,       \* history: countdown callbacks since the countdown was armed,
                      \*          -1 once a button was pressed after that
    lastInput,        \* history: the control input the last tick applied to the plant
    lastOp            \* history: the handler (and branch) that ran last

vars == <<loop_active, watchOld, jobQueued, intervalId, countdownTimer, tickTimers,
          countdownTimers, countdown, finished, aborted, userInput, game_mode,
          target_function, score, t, y1, y2, integral, lastError, channel1,
          channel2, ticks, cdWait, selects, decrements, lastInput, lastOp>>

timerVars == <<intervalId, countdownTimer, tickTimers, countdownTimers>>
simVars   == <<t, y1, y2, integral, lastError>>
bufVars   == <<channel1, channel2>>
cfgVars   == <<game_mode, target_function>>

\* Array(listSize).fill(NaN)
EmptyChannel == [i \in 1..listSize |-> NaN]

Init ==
    /\ loop_active = FALSE
    /\ watchOld = FALSE
    /\ jobQueued = FALSE
    /\ intervalId = null
    /\ countdownTimer = null
    /\ tickTimers = {}
    /\ countdownTimers = {}
    /\ countdown = -1
    /\ finished = FALSE
    /\ aborted = FALSE
    /\ userInput = 0
    /\ game_mode = "humanil"
    /\ target_function = "1"
    /\ score = 0
    /\ t = IntDouble(0)
    /\ y1 = 0 /\ y2 = 0
    /\ integral = 0 /\ lastError = 0
    /\ channel1 = EmptyChannel
    /\ channel2 = EmptyChannel
    /\ ticks = 0
    /\ cdWait = 0
    /\ selects = 0
    /\ decrements = -1
    /\ lastInput = 0
    /\ lastOp = "init"

(************************* browser / Vue primitives ************************)
\* window.setInterval: a handle no live timer and no kept handle uses
NewTimerId ==
    LET used == tickTimers \cup countdownTimers \cup {intervalId, countdownTimer}
    IN  CHOOSE i \in 1..(Cardinality(used) + 1) : i \notin used

\* variant: the watcher only hears of the loop being switched on
SetLoopActive_StopUnwatched(v) ==
    /\ loop_active' = v
    /\ jobQueued' = (jobQueued \/ (v /\ ~loop_active))

\* loop_active.value = v: the watcher's job is queued when the value changes
SetLoopActive(v) ==
    /\ loop_active' = v
    /\ jobQueued' = (jobQueued \/ v # loop_active)

\* number of ticks that fit into one countdown interval
CountdownPeriodTicks == CountdownIntervalMs \div loop_ms

(***************************** pure functions ******************************)
\* variant: the triangle's phase is not halved
targetFunction_FullRate(tf) ==
    LET shift == QuoRound(25 * FX * 10, 100 * 4)
    IN  IF target_function = "1"
        THEN FX - 4 * Abs((QuoRound((tf + shift) * 4, 10) % FX) - FX \div 2)
        ELSE IF target_function = "2"
        THEN 2 * (QuoRound((tf + shift) * 4, 10) % FX) - FX
        ELSE IF target_function = "3"
        THEN SinFx(QuoRound(3 * tf, 10)) + QuoRound(3 * SinFx(2 * tf), 10)
        ELSE SinFx(QuoRound(3 * tf, 10))

\* targetFunction(t), on the fixed-point clock tf
targetFunction(tf) ==
    LET shift == QuoRound(25 * FX * 10, 100 * 4)        \* 0.25 / freq, freq = 0.4
    IN  IF target_function = "1"
        THEN FX - 4 * Abs((QuoRound((tf + shift) * 4, 10 * 2) % FX) - FX \div 2)
        ELSE IF target_function = "2"
        THEN 2 * (QuoRound((tf + shift) * 4, 10) % FX) - FX
        ELSE IF target_function = "3"
        THEN SinFx(QuoRound(3 * tf, 10)) + QuoRound(3 * SinFx(2 * tf), 10)
        ELSE SinFx(QuoRound(3 * tf, 10))

\* controller(target, actual): the control value and the new controller state
controller(target, actual) ==
    LET error      == target - actual
        integral1  == integral + QuoRound(error * loop_ms, 1000)
        derivative == ((error - lastError) * 1000) \div loop_ms
        u          == QuoRound(Kp * error + Ki * integral1 + Kd * derivative, 100)
    IN  [u |-> u, integral |-> integral1, lastError |-> error]

\* updateSystem(u): the new plant state (its y1 is the returned output)
updateSystem(u) ==
    IF MODE = "PT1"
    THEN [y1 |-> y1 + QuoRound(loop_ms * (K * u - y1), 1000 * T), y2 |-> y2]
    ELSE LET y1n == y1 + QuoRound(loop_ms * y2, 1000)
             acc == wn * wn * (K * u - y1n) - (2 * D * wn * y2) \div 10
         IN  [y1 |-> y1n, y2 |-> y2 + QuoRound(loop_ms * acc, 1000)]

\* variant: the series is never shifted
PushShift_NoShift(ch, v) == Append(ch, v)

\* one series of addValues: push, then shift when longer than listSize
PushShift(ch, v) ==
    LET pushed == Append(ch, v)
    IN  IF Len(pushed) > listSize THEN Tail(pushed) ELSE pushed

(************************ watch(loop_active, ...) **************************)
\* the callback with newVal = TRUE: start the loop
WatchStart ==
    /\ intervalId' = NewTimerId
    /\ tickTimers' = tickTimers \cup {NewTimerId}
    /\ UNCHANGED <<finished, aborted>>

\* variant: the stop branch drops the handle without clearInterval
WatchStop_KeepsTimer ==
    IF intervalId # null
    THEN /\ intervalId' = null
         /\ finished' = (IF ~aborted THEN TRUE ELSE finished)
         /\ aborted' = FALSE
         /\ UNCHANGED tickTimers
    ELSE UNCHANGED <<intervalId, tickTimers, finished, aborted>>

\* variant: the stop branch never marks the run finished
WatchStop_NeverFinishes ==
    IF intervalId # null
    THEN /\ tickTimers' = tickTimers \ {intervalId}
         /\ intervalId' = null
         /\ aborted' = FALSE
         /\ UNCHANGED finished
    ELSE UNCHANGED <<intervalId, tickTimers, finished, aborted>>

\* the callback with newVal = FALSE: stop the loop
WatchStop ==
    IF intervalId # null
    THEN /\ tickTimers' = tickTimers \ {intervalId}
         /\ intervalId' = null
         /\ finished' = (IF ~aborted THEN TRUE ELSE finished)
         /\ aborted' = FALSE
    ELSE UNCHANGED <<intervalId, tickTimers, finished, aborted>>

\* the job calls the callback when the value changed since the last call
WatchTriggers == loop_active # watchOld

\* the microtask that runs the watcher's job
FlushWatcher ==
    /\ jobQueued
    /\ jobQueued' = FALSE
    /\ IF WatchTriggers
       THEN /\ watchOld' = loop_active
            /\ IF loop_active THEN WatchStart ELSE WatchStop
       ELSE UNCHANGED <<watchOld, intervalId, tickTimers, finished, aborted>>
    /\ UNCHANGED <<loop_active, countdownTimer, countdownTimers, countdown, userInput,
                   score, ticks, cdWait, selects, decrements, lastOp>>
    /\ UNCHANGED <<cfgVars, simVars, bufVars, lastInput>>

(******************************* startStop *********************************)
\* a click reaches startStop when no job is pending and the button is enabled
ButtonEnabled == ~finished

\* loop running: stop it
Stop ==
    /\ ~jobQueued /\ ButtonEnabled
    /\ loop_active
    /\ SetLoopActive(FALSE)
    /\ lastOp' = "stop"
    /\ decrements' = -1
    /\ UNCHANGED <<watchOld, timerVars, countdown, finished, aborted, userInput, score,
                   ticks, cdWait, selects>>
    /\ UNCHANGED <<cfgVars, simVars, bufVars, lastInput>>

\* variant: the closedL-auto branch does not return and falls into the countdown
StartAuto_FallsThrough ==
    /\ ~jobQueued /\ ButtonEnabled
    /\ ~loop_active
    /\ game_mode = "closedL-auto"
    /\ countdown' = countdown_seconds
    /\ UNCHANGED <<loop_active, jobQueued>>
    /\ countdownTimer' = NewTimerId
    /\ countdownTimers' = countdownTimers \cup {NewTimerId}
    /\ cdWait' = 0
    /\ decrements' = -1
    /\ lastOp' = "startAuto"
    /\ UNCHANGED <<watchOld, intervalId, tickTimers, finished, aborted, userInput, score,
                   ticks, selects>>
    /\ UNCHANGED <<cfgVars, simVars, bufVars, lastInput>>

\* closedL-auto: no countdown
StartAuto ==
    /\ ~jobQueued /\ ButtonEnabled
    /\ ~loop_active
    /\ game_mode = "closedL-auto"
    /\ SetLoopActive(TRUE)
    /\ lastOp' = "startAuto"
    /\ decrements' = -1
    /\ UNCHANGED <<watchOld, timerVars, countdown, finished, aborted, userInput, score,
                   ticks, cdWait, selects>>
    /\ UNCHANGED <<cfgVars, simVars, bufVars, lastInput>>

\* a countdown is running: cancel it
CancelCountdown ==
    /\ ~jobQueued /\ ButtonEnabled
    /\ ~loop_active
    /\ game_mode # "closedL-auto"
    /\ countdownTimer # null
    /\ countdownTimers' = countdownTimers \ {countdownTimer}
    /\ countdownTimer' = null
    /\ countdown' = -1
    /\ SetLoopActive(FALSE)
    /\ cdWait' = 0
    /\ decrements' = -1
    /\ lastOp' = "cancelCountdown"
    /\ UNCHANGED <<watchOld, intervalId, tickTimers, finished, aborted, userInput, score,
                   ticks, selects>>
    /\ UNCHANGED <<cfgVars, simVars, bufVars, lastInput>>

\* otherwise: show the countdown and arm its timer
StartCountdown ==
    /\ ~jobQueued /\ ButtonEnabled
    /\ ~loop_active
    /\ game_mode # "closedL-auto"
    /\ countdownTimer = null
    /\ countdown' = countdown_seconds
    /\ SetLoopActive(FALSE)
    /\ countdownTimer' = NewTimerId
    /\ countdownTimers' = countdownTimers \cup {NewTimerId}
    /\ cdWait' = 0
    /\ decrements' = 0
    /\ lastOp' = "startCountdown"
    /\ UNCHANGED <<watchOld, intervalId, tickTimers, finished, aborted, userInput, score,
                   ticks, selects>>
    /\ UNCHANGED <<cfgVars, simVars, bufVars, lastInput>>

startStop == Stop \/ StartAuto \/ CancelCountdown \/ StartCountdown

\* variant: the countdown runs one second longer
CountdownExpired_Late(c) == c < 0

\* if (countdown.value <= 0), on the decremented value
CountdownExpired(c) == c <= 0

\* the countdown timer's callback
CountdownStep ==
    /\ ~jobQueued
    /\ countdownTimers # {}
    /\ IF CountdownExpired(countdown - 1)
       THEN /\ countdownTimers' = countdownTimers \ {countdownTimer}
            /\ countdownTimer' = null
            /\ countdown' = -1
            /\ SetLoopActive(TRUE)
            /\ lastOp' = "countdownDone"
       ELSE /\ countdown' = countdown - 1
            /\ lastOp' = "countdownStep"
            /\ UNCHANGED <<countdownTimers, countdownTimer, loop_active, jobQueued>>
    /\ cdWait' = 0
    /\ decrements' = (IF decrements >= 0 THEN decrements + 1 ELSE decrements)
    /\ UNCHANGED <<watchOld, intervalId, tickTimers, finished, aborted, userInput, score,
                   ticks, selects>>
    /\ UNCHANGED <<cfgVars, simVars, bufVars, lastInput>>

(********************************* reset ***********************************)
\* variant: every reset marks the run as aborted
ResetMarksAbort_Always == TRUE

\* if (loop_active.value) aborted = true
ResetMarksAbort == loop_active

reset ==
    /\ ~jobQueued
    /\ score' = 0
    /\ userInput' = 0
    /\ aborted' = (IF ResetMarksAbort THEN TRUE ELSE aborted)
    /\ SetLoopActive(FALSE)
    /\ finished' = FALSE
    /\ channel1' = EmptyChannel
    /\ channel2' = EmptyChannel
    /\ t' = IntDouble(0)
    /\ y1' = 0 /\ y2' = 0
    /\ integral' = 0 /\ lastError' = 0
    /\ ticks' = 0
    /\ decrements' = -1
    /\ lastOp' = (IF loop_active THEN "resetActive" ELSE "reset")
    /\ UNCHANGED <<watchOld, timerVars, countdown, cdWait, selects, lastInput>>
    /\ UNCHANGED cfgVars

(******************************** gameLoop *********************************)
\* variant: the timeout is tested on the clock before its increment
TimedOut_BeforeIncrement(t1) == GeDouble(t, IntDouble(timeout_seconds))

\* if (t >= timeout_seconds), on the incremented clock
TimedOut(t1) == GeDouble(t1, IntDouble(timeout_seconds))

\* variant: the score counts in every mode
Scores_AllModes(target, output) == Abs(target - output) < margin

\* the scoring rule of one tick
Scores(target, output) ==
    /\ game_mode \in {"humanil", "closedL-auto"}
    /\ Abs(target - output) < margin

\* variant: the target is sampled after the clock was incremented
SampleClock_AfterIncrement(t0, t1) == t1

\* let target = targetFunction(t); t += dt: the clock value the target is sampled at
SampleClock(t0, t1) == t0

\* variant: openL keeps the generated target
TickTarget_Generated(slider, target0) ==
    IF game_mode = "closedL" THEN slider ELSE target0

\* the target of the tick: the slider in openL and closedL, else the generated one
TickTarget(slider, target0) ==
    IF game_mode \in {"openL", "closedL"} THEN slider ELSE target0

\* variant: every tick updates the controller state
UsesController_Always == TRUE

\* the modes whose tick calls controller()
UsesController == game_mode \in {"closedL", "closedL-auto"}

gameLoop ==
    /\ ~jobQueued
    /\ tickTimers # {}
    /\ ticks < MaxTicks
    \* timers fire in the order of their due times: the countdown timer is
    \* not overtaken by more ticks than fit into its interval
    /\ countdownTimers # {} => cdWait < CountdownPeriodTicks
    /\ LET t1      == AddDouble(t, dt)
           target0 == targetFunction(TFx(SampleClock(t, t1)))
           slider  == (userInput * FX) \div 100
           target  == TickTarget(slider, target0)
           pid     == controller(target, y1)
           closed  == UsesController
           input   == IF game_mode \in {"humanil", "openL"} THEN slider
                      ELSE IF game_mode \in {"closedL", "closedL-auto"} THEN pid.u ELSE 0
           plant   == updateSystem(input)
           output  == plant.y1
       IN  /\ t' = t1
           /\ lastInput' = input
           /\ IF TimedOut(t1)
              THEN SetLoopActive(FALSE)
              ELSE UNCHANGED <<loop_active, jobQueued>>
           /\ integral' = (IF closed THEN pid.integral ELSE integral)
           /\ lastError' = (IF closed THEN pid.lastError ELSE lastError)
           /\ y1' = plant.y1
           /\ y2' = plant.y2
           /\ score' = (IF Scores(target, output) THEN score + 1 ELSE score)
           /\ channel1' = PushShift(channel1, target)
           /\ channel2' = PushShift(channel2, output)
    /\ ticks' = ticks + 1
    /\ cdWait' = (IF countdownTimers # {} THEN cdWait + 1 ELSE 0)
    /\ lastOp' = "gameLoop"
    /\ UNCHANGED <<watchOld, timerVars, countdown, finished, aborted, userInput, selects,
                   decrements>>
    /\ UNCHANGED cfgVars

(***************************** the user's inputs ***************************)
\* variant: the mode selector is never disabled
ModeSelectorEnabled_Always == TRUE

\* :disabled="loop_active"
ModeSelectorEnabled == ~loop_active

\* <select id="game-mode" v-model="game_mode" :disabled="loop_active">
SelectMode ==
    /\ ~jobQueued
    /\ ModeSelectorEnabled
    /\ selects < MaxSelects
    /\ \E m \in Modes \ {game_mode} : game_mode' = m
    /\ selects' = selects + 1
    /\ lastOp' = "input"
    /\ UNCHANGED <<loop_active, watchOld, jobQueued, timerVars, countdown, finished,
                   aborted, userInput, target_function, score, ticks, cdWait, decrements>>
    /\ UNCHANGED <<simVars, bufVars, lastInput>>

\* :disabled="loop_active || game_mode === 'openL' || game_mode === 'closedL'"
FunctionSelectorEnabled ==
    ~(loop_active \/ game_mode = "openL" \/ game_mode = "closedL")

\* <select id="target-function" v-model="target_function" :disabled="...">
SelectFunction ==
    /\ ~jobQueued
    /\ FunctionSelectorEnabled
    /\ selects < MaxSelects
    /\ \E f \in Functions \ {target_function} : target_function' = f
    /\ selects' = selects + 1
    /\ lastOp' = "input"
    /\ UNCHANGED <<loop_active, watchOld, jobQueued, timerVars, countdown, finished,
                   aborted, userInput, game_mode, score, ticks, cdWait, decrements>>
    /\ UNCHANGED <<simVars, bufVars, lastInput>>

\* <input type="range" v-model="userInput" :disabled="game_mode === 'closedL-auto'">
Slide ==
    /\ ~jobQueued
    /\ game_mode # "closedL-auto"
    /\ ticks < MaxSlideTick
    /\ \E v \in UserInputs \ {userInput} : userInput' = v
    /\ lastOp' = "input"
    /\ UNCHANGED <<loop_active, watchOld, jobQueued, timerVars, countdown, finished,
                   aborted, score, ticks, cdWait, selects, decrements>>
    /\ UNCHANGED <<cfgVars, simVars, bufVars, lastInput>>

(****************************** specification ******************************)
Next ==
    \/ Stop
    \/ StartAuto
    \/ CancelCountdown
    \/ StartCountdown
    \/ CountdownStep
    \/ reset
    \/ gameLoop
    \/ SelectMode
    \/ SelectFunction
    \/ Slide
    \/ FlushWatcher

Spec == Init /\ [][Next]_vars

TypeOK ==
    /\ loop_active \in BOOLEAN /\ watchOld \in BOOLEAN /\ jobQueued \in BOOLEAN
    /\ finished \in BOOLEAN /\ aborted \in BOOLEAN
    /\ countdown \in {-1} \cup (1..countdown_seconds)
    /\ game_mode \in Modes /\ target_function \in Functions
    /\ userInput \in UserInputs
    /\ Len(channel1) = listSize /\ Len(channel2) = listSize

(********************************* claims **********************************)
\* ticks of a run from t = 0 to the timeout: timeout_seconds * 1000 / loop_ms
RunTicks == (timeout_seconds * 1000) \div loop_ms

\* the clock, the plant and the controller are zero, the buffer is empty
CleanSimulation ==
    /\ t = IntDouble(0)
    /\ y1 = 0 /\ y2 = 0
    /\ integral = 0 /\ lastError = 0
    /\ channel1 = EmptyChannel /\ channel2 = EmptyChannel

\* RunState: a countdown is pending; the tick loop is active; neither
CountingDown == countdownTimer # null /\ countdown > 0
Running == loop_active
Idle == ~Running /\ ~CountingDown /\ countdownTimers = {} /\ tickTimers = {}

\* a stop / a reset has fully taken effect: the handler ran and the watcher's
\* job it queued has been flushed
StopSettled == lastOp = "stop" /\ ~jobQueued
ResetSettled == lastOp \in {"reset", "resetActive"} /\ ~jobQueued

C2_ResetWhileRunning ==
    (lastOp = "resetActive" /\ ~jobQueued) =>
        /\ score = 0 /\ userInput = 0
        /\ CleanSimulation
        /\ Len(channel1) = listSize /\ Len(channel2) = listSize
        /\ intervalId = null /\ tickTimers = {}
        /\ ~finished
        /\ Idle

\* C3: after a Reset (in any state) has fully taken effect the session is Idle:
\* no countdown timer remains pending and the loop is not active.
C3_ResetReturnsToIdle == ResetSettled => Idle

\* C4: the timeout is detected by the 300th tick after t = 0 and by no other:
\* never more than RunTicks ticks execute, t follows ticks * dt, a tick before
\* the RunTicks-th leaves the loop active, the RunTicks-th deactivates it, and
\* once that has taken effect finished is TRUE and no timer of any kind is left,
\* so nothing can tick until a reset.
C4_RunTakes300Ticks ==
    /\ ticks <= RunTicks
    /\ TFx(t) = ticks * ((FX * loop_ms) \div 1000)
    /\ (lastOp = "gameLoop" /\ ticks < RunTicks) => (loop_active /\ ~jobQueued)
    /\ (lastOp = "gameLoop" /\ ticks = RunTicks) => ~loop_active
    /\ (ticks = RunTicks /\ ~jobQueued) =>
            /\ finished /\ ~loop_active
            /\ intervalId = null /\ tickTimers = {} /\ countdownTimers = {}

C4_Witness ==
    /\ ticks = RunTicks /\ ~jobQueued /\ lastOp = "gameLoop"
    /\ finished /\ game_mode = "openL"

\* C5: whenever finished is TRUE the tick loop is inactive.
C5_FinishedBlocksLoop == finished => ~loop_active

\* C6: a Start press made while a countdown is pending and the loop is
\* inactive cancels the countdown and does not activate the loop.
C6_StartCancelsCountdown ==
    [][(/\ CountingDown /\ ~loop_active /\ ~jobQueued
        /\ lastOp' \in {"stop", "startAuto", "cancelCountdown", "startCountdown"})
       => (countdownTimer' = null /\ countdownTimers' = {} /\ ~loop_active')]_vars

\* C7: while a countdown armed by Start runs with no button pressed, the shown
\* value is countdown_seconds minus the callbacks run so far, it stays >= 1,
\* the loop is inactive and no tick timer exists; the loop is activated by the
\* countdown_seconds-th callback and by no earlier or later one.
C7_CountdownThreeDecrements ==
    /\ (countdownTimer # null /\ decrements >= 0) =>
            /\ decrements < countdown_seconds
            /\ countdown = countdown_seconds - decrements
            /\ ~loop_active /\ tickTimers = {}
    /\ (lastOp = "countdownDone" /\ decrements >= 0) =>
            /\ decrements = countdown_seconds
            /\ loop_active /\ countdown = -1 /\ countdownTimer = null
            /\ (~jobQueued => tickTimers # {})

C7_Witness ==
    /\ lastOp = "countdownDone" /\ decrements = countdown_seconds
    /\ ~jobQueued /\ tickTimers # {} /\ ticks = 0

\* C8: a Start press in Idle with mode closedL-auto activates the loop in that
\* very step, creates no countdown timer and leaves countdown at -1; once the
\* watcher has run the tick timer exists.
C8_AutoStartsDirectly ==
    /\ [][(/\ Idle /\ ~jobQueued /\ game_mode = "closedL-auto"
           /\ lastOp' = "startAuto")
          => (/\ loop_active'
              /\ countdownTimer' = null /\ countdownTimers' = {}
              /\ countdown' = -1)]_vars
    /\ []((lastOp = "startAuto" /\ ~jobQueued) => (loop_active /\ tickTimers # {}))

C8_Witness ==
    /\ lastOp = "startAuto" /\ ~jobQueued
    /\ loop_active /\ tickTimers # {} /\ countdownTimer = null /\ countdown = -1

\* C9: the session is never CountingDown and Running at once.
C9_OneRunState == ~(CountingDown /\ Running /\ tickTimers # {})

\* C10: at most one tick timer exists and it is the one intervalId holds; a
\* Start press while Running leaves no tick timer; a Reset pressed while the
\* loop is inactive leaves no tick timer and finished false.
C10_OneTickTimer ==
    /\ Cardinality(tickTimers) <= 1
    /\ tickTimers = (IF intervalId = null THEN {} ELSE {intervalId})
    /\ StopSettled => tickTimers = {}
    /\ (lastOp = "reset" /\ ~jobQueued) => (tickTimers = {} /\ ~finished /\ ~aborted)

C10_Witness ==
    /\ lastOp = "reset" /\ ~jobQueued /\ intervalId = null
    /\ countdownTimer = null /\ selects > 0 /\ ~finished

\* a step is a tick of gameLoop / a call of reset
TickStep == ticks' = ticks + 1 /\ lastOp' = "gameLoop"
ResetStep == ticks' = 0 /\ lastOp' \in {"reset", "resetActive"}

\* the pair the last tick appended to the buffer
LastTarget == channel1[listSize]
LastOutput == channel2[listSize]

\* the slider value as the plant and the buffer see it: userInput / 100
SliderValue == (userInput * FX) \div 100

\* C11: while loop_active is false no tick executes, and the clock, the plant,
\* the controller, the score and both series are changed by nothing except a
\* Reset; once the stop has been processed no tick timer exists.
C11_NoTickWhileInactive ==
    /\ [][~loop_active =>
            /\ ~TickStep
            /\ (UNCHANGED <<simVars, score, bufVars>> \/ ResetStep)]_vars
    /\ []((~loop_active /\ ~jobQueued) => tickTimers = {})

C11_Witness ==
    /\ ~loop_active /\ ~jobQueued /\ finished
    /\ ticks > 0 /\ lastOp = "input"

\* C12: score is never negative; a step leaves it alone, or is a Reset that
\* zeroes it, or is a tick that adds exactly 1 in mode humanil or closedL-auto
\* with |target - output| < margin for the pair that tick recorded.
C12_ScoreMonotone ==
    /\ [](score >= 0)
    /\ [][\/ score' = score
          \/ ResetStep /\ score' = 0
          \/ /\ TickStep
             /\ score' = score + 1
             /\ game_mode \in {"humanil", "closedL-auto"}
             /\ Abs(LastTarget' - LastOutput') < margin]_vars

C12_Witness ==
    /\ lastOp = "gameLoop" /\ game_mode = "humanil"
    /\ score > 1 /\ score < ticks

\* C13: both series always have exactly listSize = 200 entries, of which the
\* oldest max(0, listSize - appends since the last reset) are NaN; a tick drops
\* the oldest entry of each series and appends one, a Reset restores 200 NaN,
\* and no other step touches the series.
C13_BufferFifo ==
    /\ [](/\ Len(channel1) = listSize /\ Len(channel2) = listSize
          /\ listSize = 200
          /\ \A i \in 1..listSize :
                /\ (channel1[i] = NaN) <=> (i <= listSize - ticks)
                /\ (channel2[i] = NaN) <=> (i <= listSize - ticks))
    /\ [][\/ UNCHANGED bufVars
          \/ ResetStep /\ channel1' = EmptyChannel /\ channel2' = EmptyChannel
          \/ /\ TickStep
             /\ \A i \in 1..(listSize - 1) :
                   channel1'[i] = channel1[i + 1] /\ channel2'[i] = channel2[i + 1]
             /\ LastTarget' # NaN /\ LastOutput' = y1']_vars

C13_Witness ==
    /\ ticks > listSize /\ lastOp = "gameLoop"
    /\ channel1[1] # NaN /\ channel2[1] # NaN

\* C14: in mode openL every tick records userInput / 100 as the target and
\* applies the same value to the plant, whatever the target function is, and
\* leaves the score alone.
C14_OpenLoopTarget ==
    [][(TickStep /\ game_mode = "openL") =>
          /\ LastTarget' = SliderValue
          /\ lastInput' = SliderValue
          /\ score' = score]_vars

C14_Witness ==
    /\ lastOp = "gameLoop" /\ game_mode = "openL" /\ ticks > 1
    /\ userInput = 50 /\ LastTarget = FX \div 2 /\ lastInput = FX \div 2

\* C15: no step taken while the tick loop is active changes game_mode or
\* target_function.
C15_ConfigFrozenWhileRunning ==
    [][loop_active => UNCHANGED cfgVars]_vars

C15_Witness ==
    /\ loop_active /\ ~jobQueued /\ ticks > 0
    /\ selects = MaxSelects /\ lastOp = "gameLoop"

\* the period 1 / freq of the generated waveforms, freq = 0.4, on the
\* fixed-point clock
WavePeriod == (10 * FX) \div 4

\* C16 (as stated): at every tick time the triangle (function 1) and the
\* sawtooth (function 2) lie in [-1, 1] and repeat after 1 / freq = 2.5 s:
\* targetFunction(t + 2.5) = targetFunction(t).
C16_WavesPeriodic ==
    target_function \in {"1", "2"} =>
        /\ Abs(targetFunction(TFx(t))) <= FX
        /\ targetFunction(TFx(t) + WavePeriod) = targetFunction(TFx(t))

\* C16: at every tick time both waveforms lie in [-1, 1]; the sawtooth repeats
\* after 1 / freq = 2.5 s; the triangle, whose phase is halved, changes sign
\* after 2.5 s and repeats after 2 / freq = 5 s.
C16_WavePeriods ==
    LET tf == TFx(t)
    IN  /\ target_function = "2" =>
            /\ Abs(targetFunction(tf)) <= FX
            /\ targetFunction(tf + WavePeriod) = targetFunction(tf)
        /\ target_function = "1" =>
            /\ Abs(targetFunction(tf)) <= FX
            /\ targetFunction(tf + WavePeriod) = -targetFunction(tf)
            /\ targetFunction(tf + 2 * WavePeriod) = targetFunction(tf)

C16_Witness ==
    /\ target_function = "1" /\ game_mode = "humanil" /\ lastOp = "gameLoop"
    /\ TFx(t) >= 2 * WavePeriod
    /\ targetFunction(TFx(t) + WavePeriod) # targetFunction(TFx(t))

\* the tick time of the clock on the fixed-point scale: dt = loop_ms / 1000
DtFx == (loop_ms * FX) \div 1000

\* C17: a tick in closedL or closedL-auto runs the controller exactly once, on
\* the tick's target and the plant output before the step: lastError becomes
\* that error and integral grows by error * dt; a tick in openL or humanil
\* leaves integral and lastError alone; any other step that changes them is a
\* Reset, which zeroes them together with the plant state.
C17_ControllerOncePerTick ==
    [][/\ (TickStep /\ game_mode \in {"closedL", "closedL-auto"}) =>
              /\ lastError' = LastTarget' - y1
              /\ integral' = integral + QuoRound(lastError' * loop_ms, 1000)
       /\ (TickStep /\ game_mode \in {"openL", "humanil"}) =>
              UNCHANGED <<integral, lastError>>
       /\ ~TickStep =>
              \/ UNCHANGED <<integral, lastError>>
              \/ /\ ResetStep
                 /\ integral' = 0 /\ lastError' = 0 /\ y1' = 0 /\ y2' = 0]_vars

C17_Witness ==
    /\ lastOp = "gameLoop" /\ game_mode = "closedL" /\ ticks > 1
    /\ userInput = 50 /\ lastError # 0 /\ integral # 0

\* C18: the k-th tick since t = 0 samples the generated target at (k - 1) * dt,
\* feeds the controller the plant output of before the step, advances the
\* plant once (y1 by dt * y2), scores the target against the new output, and
\* appends exactly one pair (target, new output), the timeout tick included.
C18_TickOrder ==
    [][TickStep =>
          /\ game_mode \in {"humanil", "closedL-auto"} =>
                LastTarget' = targetFunction(ticks * DtFx)
          /\ game_mode \in {"closedL", "closedL-auto"} =>
                lastError' = LastTarget' - y1
          /\ y1' = y1 + QuoRound(loop_ms * y2, 1000)
          /\ (score' = score + 1) <=>
                (/\ game_mode \in {"humanil", "closedL-auto"}
                 /\ Abs(LastTarget' - y1') < margin)
          /\ LastOutput' = y1'
          /\ \A i \in 1..(listSize - 1) :
                channel1'[i] = channel1[i + 1] /\ channel2'[i] = channel2[i + 1]]_vars

C18_Witness ==
    /\ lastOp = "gameLoop" /\ ticks = RunTicks /\ ~loop_active
    /\ game_mode = "closedL-auto" /\ LastOutput = y1 /\ y1 # 0
    /\ LastTarget = targetFunction((RunTicks - 1) * DtFx)

\* C19: whenever the tick loop becomes active the simulation is clean: the
\* clock, the plant and the controller are zero, the buffer is empty and the
\* score is 0.
C19_RunsStartClean ==
    [][(~loop_active /\ loop_active') => (CleanSimulation /\ score = 0)]_vars

\* C20: whenever the loop is inactive and no watcher job is pending, aborted is
\* false; a run that ended by timeout has finished = TRUE once the watcher ran.
C20_AbortNeverLeaks ==
    /\ (~loop_active /\ ~jobQueued) => ~aborted
    /\ (lastOp = "gameLoop" /\ ~loop_active /\ ~jobQueued) => finished

C20_Witness ==
    /\ lastOp = "gameLoop" /\ ~loop_active /\ ~jobQueued
    /\ finished /\ ~aborted /\ ticks = RunTicks /\ selects > 0

=============================================================================
